---- MODULE Spec2Model ----
(***************************************************************************)
(* The non-local-exit bridge of emacs-module-rs: Env::handle_exit,         *)
(* Env::maybe_exit, Env::handle_panic, Env::signal_str (src/src/error.rs), *)
(* raw_fn!/raw_call!/critical!/emacs_subrs! (src/src/macros.rs) and the    *)
(* function registrar HandleFunc (src/src/func.rs), run against a foreign  *)
(* runtime that owns the dispatch table, the pending-exit state and the    *)
(* function namespace.                                                     *)
(***************************************************************************)
EXTENDS Integers, Sequences, FiniteSets, TLC

VARIABLES
  table,     \* the dispatch table: the names of the primitives that are present
  pending,   \* the runtime's pending non-local exit: [st, a, b]
  fns,       \* the runtime's function namespace: a set of <<name, function handle>>
  proc,      \* "running", or how the process ended: "aborted" / "unwound"
  pc,        \* the control point of the host thread
  kont,      \* return labels of the raw_call!s in progress
  mode,      \* what the runtime called: "subr", "tramp", "init", "none"
  phase,     \* within an exported call: "logic", "exit", "panic", "none"
  ncalls,    \* foreign calls the host logic has made in this exported call
  rawres,    \* the raw value the last primitive returned
  res,       \* the Result the last fallible bridge call returned
  held,      \* the error the host logic keeps from a failed call
  hostres,   \* the Result the host logic returned
  retval,    \* the raw value handed back to the runtime
  ss,        \* signal_str's arguments and locals
  reg,       \* register's arguments and locals
  log,       \* primitives invoked by the bridge operation in progress, in order
  hist,      \* history of this call: exits raised and not cleared, failures seen
  prefix,    \* the process-wide prefix slot: <<feature name, separator>>
  modInName, \* the process-wide flag: fold the module path into names
  plock,     \* who holds the lock of the prefix slot
  flock,     \* who holds the lock of the map of initializers
  who,       \* the plugin whose load sequence is inside the bridge
  ld         \* per plugin: the position and locals of its load sequence

\* The state of the load sequences.
lvars == <<prefix, modInName, plock, flock, who, ld>>

vars == <<table, pending, fns, proc, pc, kont, mode, phase, ncalls, rawres, res,
          held, hostres, retval, ss, reg, log, hist, prefix, modInName, plock,
          flock, who, ld>>

----------------------------------------------------------------------------
\* Bounds of the model.
NumObjs == 2      \* opaque runtime values the runtime can hand out or raise
MaxStatus == 3    \* completion statuses the exit query can report: 0..MaxStatus
MaxMissing == 1   \* primitives that may be absent from the dispatch table
MaxCalls == 2     \* foreign calls host logic makes in one exported call

\* The completion statuses (emacs_funcall_exit).
RETURN == 0
SIGNAL == 1
THROW == 2
Statuses == 0..MaxStatus

\* The bridge-owned condition symbols.
WRONG_TYPE_USER_PTR == "rust-wrong-type-user-ptr"
ERROR == "rust-error"
PANIC == "rust-panic"

----------------------------------------------------------------------------
\* Foreign value handles: opaque tokens, here sequences of strings.
NoH == <<>>
Obj(i) == <<"obj", ToString(i)>>
Sym(n) == <<"sym", n>>
Str(m) == <<"str">> \o m
List1(h) == <<"list">> \o h
Fn(f) == <<"fn", f>>
CStr(m) == <<"cstr">> \o m
Subr(f) == <<"subr", f>>
Objs == {Obj(i) : i \in 1..NumObjs}

\* The dispatch table's slots.
Critical == {"non_local_exit_get", "non_local_exit_clear",
             "non_local_exit_signal", "non_local_exit_throw"}
AllPrims == Critical \cup {"make_function", "intern", "funcall", "make_string",
                           "extract_integer"}
LogicPrims == {"funcall", "extract_integer"}

\* ErrorKind and the other errors a failure::Error can hold.
NoErr == [kind |-> "None", a |-> NoH, b |-> NoH, s |-> ""]
Signal(symbol, data) == [kind |-> "Signal", a |-> symbol, b |-> data, s |-> ""]
Throw(tag, value) == [kind |-> "Throw", a |-> tag, b |-> value, s |-> ""]
WrongTypeUserPtr(expected) ==
  [kind |-> "WrongTypeUserPtr", a |-> NoH, b |-> NoH, s |-> expected]
CoreFnMissing(name) == [kind |-> "CoreFnMissing", a |-> NoH, b |-> NoH, s |-> name]
Other(msg) == [kind |-> "Other", a |-> NoH, b |-> NoH, s |-> msg]

\* Result<T>
Ok(h) == [tag |-> "Ok", h |-> h, e |-> NoErr]
Err(e) == [tag |-> "Err", h |-> NoH, e |-> e]
NoRes == [tag |-> "None", h |-> NoH, e |-> NoErr]

\* The rendered message of the missing-function error: it names the primitive.
CoreFnMissingDisplay(name) == <<"Required function ", name, " cannot be found">>

\* The rendered message of an error (its Display), as a sequence of pieces.
Display(e) ==
  CASE e.kind = "Signal" -> <<"Non-local signal: symbol=", e.a[2], " data=", e.b[2]>>
    [] e.kind = "Throw" -> <<"Non-local throw: tag=", e.a[2], " value=", e.b[2]>>
    [] e.kind = "WrongTypeUserPtr" -> <<"expected: ", e.s>>
    [] e.kind = "CoreFnMissing" -> CoreFnMissingDisplay(e.s)
    [] OTHER -> <<e.s>>

\* format!("{:#?}", payload) of a caught panic: Box<dyn Any + Send> prints as "Any".
PanicMessage == <<"Any">>

----------------------------------------------------------------------------
\* The foreign runtime.
Quiet == [st |-> RETURN, a |-> NoH, b |-> NoH]
Raises ==
  [st : {SIGNAL, THROW}, a : Objs, b : Objs]
  \cup [st : Statuses \ {RETURN, SIGNAL, THROW}, a : {NoH}, b : {NoH}]

\* The value a primitive returns when it completes normally.
PrimValue(name, args, any) ==
  CASE name = "make_string" -> Str(Tail(args[1]))
    [] name = "intern" -> Sym(args[1][2])
    [] name = "make_function" -> Fn(args[1][2])
    [] name = "funcall" ->
         IF args[1] = Sym("list") THEN List1(args[2])
         ELSE IF args[1] = Sym("fset") THEN args[3]
         ELSE any
    [] OTHER -> any

\* The function namespace after a primitive completes normally.
PrimFns(name, args, f) ==
  IF name = "funcall" /\ args[1] = Sym("fset")
  THEN {p \in f : p[1] # args[2][2]} \cup {<<args[2][2], args[3]>>}
  ELSE f

\* non_local_exit_signal / non_local_exit_throw: record the exit unless one
\* is already pending.
RtRaise(p, st, a, b) == IF p.st = RETURN THEN [st |-> st, a |-> a, b |-> b] ELSE p

\* non_local_exit_clear
RtClear(p) == Quiet

----------------------------------------------------------------------------
\* History of the current call into the bridge (read by the properties only):
\* uncleared counts the exits the runtime raised that were not cleared yet,
\* overcleared records a clear that had no such exit to clear, lastRaise is
\* the exit raised in the call under way, createRaise the one raised by
\* make_function, heldExit the one behind the error the host logic keeps.
NoHist == [uncleared |-> 0, overcleared |-> FALSE, lastRaise |-> Quiet,
           createRaise |-> Quiet, heldExit |-> Quiet, panicked |-> FALSE,
           ssFailed |-> FALSE]
NoSs == [symbol |-> "", message |-> <<>>, msgh |-> NoH, datah |-> NoH, caller |-> ""]
NoReg == [name |-> "", f |-> "", docNul |-> FALSE, fnh |-> NoH, symh |-> NoH,
          fns0 |-> {}]

FnNames == {"greet", "hi"}
ExpectedTypes == {"RefCell"}
OtherMsgs == {"io error"}
NulError == Other("nul byte found in provided data")

Tables == {AllPrims \ m : m \in {s \in SUBSET AllPrims : Cardinality(s) <= MaxMissing}}

\* The plugins of the process and what #[module] was given for each:
\* name, separator, mod_in_name, and the names in its map of initializers
\* (iterated in key order).
Plugins == {"P", "Q"}
NoOne == "none"
ModuleOpts(p) ==
  IF p = "P"
  THEN [name |-> [kind |-> "Str", s |-> "mylib"], separator |-> "-",
        mod_in_name |-> FALSE, crate |-> "mylib", hook |-> "init",
        path |-> "", init_fns |-> <<"greet", "hi">>]
  ELSE [name |-> [kind |-> "Crate", s |-> ""], separator |-> "/",
        mod_in_name |-> TRUE, crate |-> "qlib", hook |-> "start",
        path |-> "util", init_fns |-> <<"greet">>]

\* The prefix slot before any plugin has set it.
NoPrefix == <<"", "">>
NoLd == [ip |-> 0, feature |-> "", k |-> 1, rd |-> <<>>, flag |-> FALSE,
         status |-> -1, trail |-> <<>>, bound |-> {},
         failed |-> FALSE, provided |-> FALSE, died |-> ""]

Init ==
  /\ table \in Tables
  /\ pending = Quiet
  /\ fns = {}
  /\ proc = "running"
  /\ pc = "idle"
  /\ kont = <<>>
  /\ mode = "none"
  /\ phase = "none"
  /\ ncalls = 0
  /\ rawres = NoH
  /\ res = NoRes
  /\ held = NoErr
  /\ hostres = NoRes
  /\ retval = NoH
  /\ ss = NoSs
  /\ reg = NoReg
  /\ log = <<>>
  /\ hist = NoHist
  /\ prefix = NoPrefix
  /\ modInName = FALSE
  /\ plock = NoOne
  /\ flock = NoOne
  /\ who = NoOne
  /\ ld = [p \in Plugins |-> NoLd]

----------------------------------------------------------------------------
\* A panic drops the frames it unwinds through.  It stops at the enclosing
\* catch_unwind; with none, it leaves the extern "C" function: the process
\* aborts, or the unwind runs into the runtime's frames.
Unwind(h) ==
  /\ hist' = h
  /\ IF mode = "tramp" /\ phase = "logic"
     THEN /\ pc' = "handle_panic"
          /\ phase' = "panic"
          /\ proc' = proc
     ELSE /\ pc' = "dead"
          /\ phase' = phase
          /\ proc' \in {"aborted", "unwound"}
  /\ kont' = <<>>
  /\ ncalls' = 0
  /\ rawres' = NoH
  /\ res' = NoRes
  /\ held' = NoErr
  /\ hostres' = NoRes
  /\ retval' = NoH
  /\ ss' = NoSs
  /\ reg' = NoReg
  /\ log' = <<>>
  /\ UNCHANGED <<table, pending, fns, mode>>

\* Faulty variant of raw_fn!: the slot is taken to be there.
raw_fn_unchecked(t, name) == Ok(Sym(name))

\* raw_fn!: the slot's pointer, or the missing-function error naming the slot.
raw_fn(t, name) == IF name \in t THEN Ok(Sym(name)) ELSE Err(CoreFnMissing(name))

\* The runtime runs primitive `name`: it does nothing while an exit is pending,
\* and otherwise completes normally or raises a non-local exit.
RuntimeCall(name, args, k) ==
  /\ log' = Append(log, [op |-> name, args |-> args])
  /\ pc' = "handle_exit"
  /\ kont' = <<k>> \o kont
  /\ UNCHANGED res
  /\ IF pending.st # RETURN
     THEN /\ rawres' = NoH
          /\ UNCHANGED <<pending, fns, hist>>
     ELSE \/ \E any \in Objs :
               /\ rawres' = PrimValue(name, args, any)
               /\ fns' = PrimFns(name, args, fns)
               /\ UNCHANGED <<pending, hist>>
          \/ \E x \in Raises :
               /\ pending' = x
               /\ rawres' = NoH
               /\ hist' = [hist EXCEPT
                             !.uncleared = @ + (IF x.st \in {SIGNAL, THROW} THEN 1 ELSE 0),
                             !.lastRaise = x,
                             !.createRaise = IF name = "make_function" THEN x ELSE @]
               /\ UNCHANGED fns

\* raw_call!: look the slot up (`?`), evaluate the arguments (argErr is the
\* error of a failing argument expression, NoErr when none fails), call the
\* primitive, then handle_exit.  The Result arrives in res at label k.
raw_call(name, args, argErr, k) ==
  LET f == raw_fn(table, name) IN
  IF f.tag = "Err" \/ argErr # NoErr
  THEN /\ res' = IF f.tag = "Err" THEN f ELSE Err(argErr)
       /\ pc' = k
       /\ UNCHANGED <<pending, fns, rawres, log, kont, hist>>
  ELSE RuntimeCall(name, args, k)

Panicked == [tag |-> "Panic", h |-> NoH, e |-> NoErr]

\* Faulty variants of the match of handle_exit: the THROW arm forgets the
\* clear; the RETURN arm clears as well; the SIGNAL arm forgets the clear; an
\* unknown status passes as RETURN.
HandleExitMatchThrowNoClear(status, symbol, data, result) ==
  CASE status = RETURN -> [clear |-> FALSE, out |-> Ok(result)]
    [] status = SIGNAL -> [clear |-> TRUE, out |-> Err(Signal(symbol, data))]
    [] status = THROW -> [clear |-> FALSE, out |-> Err(Throw(symbol, data))]
    [] OTHER -> [clear |-> FALSE, out |-> Panicked]
HandleExitMatchClearsOnReturn(status, symbol, data, result) ==
  CASE status = RETURN -> [clear |-> TRUE, out |-> Ok(result)]
    [] status = SIGNAL -> [clear |-> TRUE, out |-> Err(Signal(symbol, data))]
    [] status = THROW -> [clear |-> TRUE, out |-> Err(Throw(symbol, data))]
    [] OTHER -> [clear |-> FALSE, out |-> Panicked]
HandleExitMatchSignalNoClear(status, symbol, data, result) ==
  CASE status = RETURN -> [clear |-> FALSE, out |-> Ok(result)]
    [] status = SIGNAL -> [clear |-> FALSE, out |-> Err(Signal(symbol, data))]
    [] status = THROW -> [clear |-> TRUE, out |-> Err(Throw(symbol, data))]
    [] OTHER -> [clear |-> FALSE, out |-> Panicked]
HandleExitMatchUnknownOk(status, symbol, data, result) ==
  CASE status = SIGNAL -> [clear |-> TRUE, out |-> Err(Signal(symbol, data))]
    [] status = THROW -> [clear |-> TRUE, out |-> Err(Throw(symbol, data))]
    [] OTHER -> [clear |-> FALSE, out |-> Ok(result)]

\* The match of handle_exit on (status, symbol, data).
HandleExitMatch(status, symbol, data, result) ==
  CASE status = RETURN -> [clear |-> FALSE, out |-> Ok(result)]
    [] status = SIGNAL -> [clear |-> TRUE, out |-> Err(Signal(symbol, data))]
    [] status = THROW -> [clear |-> TRUE, out |-> Err(Throw(symbol, data))]
    [] OTHER -> [clear |-> FALSE, out |-> Panicked]

InSignalStr ==
  Len(kont) > 0 /\ Head(kont) \in {"ss_list", "ss_list_call", "ss_intern", "ss_signal"}

GetEntry == [op |-> "non_local_exit_get", args |-> <<>>]
ClearEntry == [op |-> "non_local_exit_clear", args |-> <<>>]

\* Env::handle_exit: non_local_exit_get, then the match; non_local_exit_clear
\* in the SIGNAL and THROW arms.  Both primitives are required ones: a missing
\* one is a panic.  With status RETURN the out-parameters stay uninitialized.
handle_exit ==
  /\ pc = "handle_exit"
  /\ \E js \in Objs \cup {NoH}, jd \in Objs \cup {NoH} :
       LET getOk == "non_local_exit_get" \in table
           clearOk == "non_local_exit_clear" \in table
           status == pending.st
           symbol == IF status = RETURN THEN js ELSE pending.a
           data == IF status = RETURN THEN jd ELSE pending.b
           m == HandleExitMatch(status, symbol, data, rawres)
           panics == ~getOk \/ (m.clear /\ ~clearOk) \/ m.out.tag = "Panic"
       IN IF panics
          THEN Unwind([hist EXCEPT !.ssFailed = @ \/ InSignalStr])
          ELSE /\ log' = log \o <<GetEntry>> \o (IF m.clear THEN <<ClearEntry>> ELSE <<>>)
               /\ pending' = IF m.clear THEN RtClear(pending) ELSE pending
               /\ hist' = IF ~m.clear THEN hist
                          ELSE IF hist.uncleared = 0
                               THEN [hist EXCEPT !.overcleared = TRUE]
                               ELSE [hist EXCEPT !.uncleared = @ - 1]
               /\ res' = m.out
               /\ pc' = Head(kont)
               /\ kont' = Tail(kont)
               /\ UNCHANGED <<table, fns, proc, mode, phase, ncalls, rawres, held,
                              hostres, retval, ss, reg>>

----------------------------------------------------------------------------
\* The runtime calls an exported function.
Enter(m) ==
  /\ pc = "idle"
  /\ proc = "running"
  /\ mode' = m
  /\ phase' = "logic"
  /\ pc' = "logic"
  /\ UNCHANGED <<table, pending, fns, proc, kont, ncalls, rawres, res, held, hostres,
                 retval, ss, reg, log, hist>>

\* emacs_subrs!: the extern "C" wrapper calls the host logic, then maybe_exit.
CallSubr == Enter("subr")

\* The Panic Trampoline: the host logic runs under catch_unwind, its Result
\* goes to maybe_exit and the outcome to handle_panic.
CallTrampoline == Enter("tramp")

\* Where control goes when maybe_exit returns a raw value.
AfterExit == IF mode = "tramp" THEN "handle_panic" ELSE "returned"

\* Host logic calls a primitive through raw_call!.
LogicCall ==
  /\ pc = "logic"
  /\ ncalls < MaxCalls
  /\ ncalls' = ncalls + 1
  /\ \E name \in LogicPrims : raw_call(name, <<Obj(1)>>, NoErr, "logic_got")
  /\ UNCHANGED <<table, proc, mode, phase, held, hostres, retval, ss, reg>>

\* Host logic receives the Result of its call and keeps the error, if any.
LogicGot ==
  /\ pc = "logic_got"
  /\ pc' = "logic"
  /\ held' = IF res.tag = "Err" THEN res.e ELSE held
  /\ hist' = [hist EXCEPT
                !.heldExit = IF res.tag = "Err" THEN hist.lastRaise ELSE @,
                !.lastRaise = Quiet]
  /\ res' = NoRes
  /\ rawres' = NoH
  /\ log' = <<>>
  /\ UNCHANGED <<table, pending, fns, proc, kont, mode, phase, ncalls, hostres,
                 retval, ss, reg>>

\* The Results host logic can return: a value, the error it kept (propagated
\* unchanged), or an error of its own.
HostResults ==
  {Ok(h) : h \in Objs}
  \cup (IF held = NoErr THEN {} ELSE {Err(held)})
  \cup {Err(WrongTypeUserPtr(t)) : t \in ExpectedTypes}
  \cup {Err(Other(m)) : m \in OtherMsgs}

LogicReturn ==
  /\ pc = "logic"
  /\ \E r \in HostResults :
       /\ hostres' = r
       /\ hist' = [hist EXCEPT !.heldExit = IF r = Err(held) THEN @ ELSE Quiet]
  /\ pc' = "maybe_exit"
  /\ phase' = "exit"
  /\ held' = NoErr
  /\ ncalls' = 0
  /\ UNCHANGED <<table, pending, fns, proc, kont, mode, rawres, res, retval, ss, reg,
                 log>>

LogicPanic ==
  /\ pc = "logic"
  /\ Unwind([hist EXCEPT !.panicked = TRUE, !.heldExit = Quiet])

----------------------------------------------------------------------------
\* Env::signal / Env::throw: a required primitive, called without handle_exit.
raise_exit(prim, st, a, b, next) ==
  /\ pending' = RtRaise(pending, st, a, b)
  /\ log' = Append(log, [op |-> prim, args |-> <<a, b>>])
  /\ pc' = next

\* Faulty variants of the match of maybe_exit: a Signal is wrapped into a new
\* rust-error signal; a Throw is re-raised as a signal; Ok returns no handle;
\* a type mismatch is signalled as rust-error.
MaybeExitArmWrapsSignal(result) ==
  CASE result.tag = "Ok" ->
         [arm |-> "ok", a |-> result.h, b |-> NoH, sym |-> "", msg |-> <<>>]
    [] result.tag = "Err" /\ result.e.kind = "Throw" ->
         [arm |-> "throw", a |-> result.e.a, b |-> result.e.b, sym |-> "", msg |-> <<>>]
    [] result.tag = "Err" /\ result.e.kind = "WrongTypeUserPtr" ->
         [arm |-> "signal_str", a |-> NoH, b |-> NoH, sym |-> WRONG_TYPE_USER_PTR,
          msg |-> Display(result.e)]
    [] OTHER ->
         [arm |-> "signal_str", a |-> NoH, b |-> NoH, sym |-> ERROR,
          msg |-> Display(result.e)]
MaybeExitArmThrowAsSignal(result) ==
  CASE result.tag = "Ok" ->
         [arm |-> "ok", a |-> result.h, b |-> NoH, sym |-> "", msg |-> <<>>]
    [] result.tag = "Err" /\ result.e.kind \in {"Signal", "Throw"} ->
         [arm |-> "signal", a |-> result.e.a, b |-> result.e.b, sym |-> "", msg |-> <<>>]
    [] result.tag = "Err" /\ result.e.kind = "WrongTypeUserPtr" ->
         [arm |-> "signal_str", a |-> NoH, b |-> NoH, sym |-> WRONG_TYPE_USER_PTR,
          msg |-> Display(result.e)]
    [] OTHER ->
         [arm |-> "signal_str", a |-> NoH, b |-> NoH, sym |-> ERROR,
          msg |-> Display(result.e)]
MaybeExitArmOkNull(result) ==
  CASE result.tag = "Ok" ->
         [arm |-> "ok", a |-> NoH, b |-> NoH, sym |-> "", msg |-> <<>>]
    [] result.tag = "Err" /\ result.e.kind = "Signal" ->
         [arm |-> "signal", a |-> result.e.a, b |-> result.e.b, sym |-> "", msg |-> <<>>]
    [] result.tag = "Err" /\ result.e.kind = "Throw" ->
         [arm |-> "throw", a |-> result.e.a, b |-> result.e.b, sym |-> "", msg |-> <<>>]
    [] result.tag = "Err" /\ result.e.kind = "WrongTypeUserPtr" ->
         [arm |-> "signal_str", a |-> NoH, b |-> NoH, sym |-> WRONG_TYPE_USER_PTR,
          msg |-> Display(result.e)]
    [] OTHER ->
         [arm |-> "signal_str", a |-> NoH, b |-> NoH, sym |-> ERROR,
          msg |-> Display(result.e)]
MaybeExitArmWrongSymbol(result) ==
  CASE result.tag = "Ok" ->
         [arm |-> "ok", a |-> result.h, b |-> NoH, sym |-> "", msg |-> <<>>]
    [] result.tag = "Err" /\ result.e.kind = "Signal" ->
         [arm |-> "signal", a |-> result.e.a, b |-> result.e.b, sym |-> "", msg |-> <<>>]
    [] result.tag = "Err" /\ result.e.kind = "Throw" ->
         [arm |-> "throw", a |-> result.e.a, b |-> result.e.b, sym |-> "", msg |-> <<>>]
    [] OTHER ->
         [arm |-> "signal_str", a |-> NoH, b |-> NoH, sym |-> ERROR,
          msg |-> Display(result.e)]

\* The match of maybe_exit.
MaybeExitArm(result) ==
  CASE result.tag = "Ok" ->
         [arm |-> "ok", a |-> result.h, b |-> NoH, sym |-> "", msg |-> <<>>]
    [] result.tag = "Err" /\ result.e.kind = "Signal" ->
         [arm |-> "signal", a |-> result.e.a, b |-> result.e.b, sym |-> "", msg |-> <<>>]
    [] result.tag = "Err" /\ result.e.kind = "Throw" ->
         [arm |-> "throw", a |-> result.e.a, b |-> result.e.b, sym |-> "", msg |-> <<>>]
    [] result.tag = "Err" /\ result.e.kind = "WrongTypeUserPtr" ->
         [arm |-> "signal_str", a |-> NoH, b |-> NoH, sym |-> WRONG_TYPE_USER_PTR,
          msg |-> Display(result.e)]
    [] OTHER ->
         [arm |-> "signal_str", a |-> NoH, b |-> NoH, sym |-> ERROR,
          msg |-> Display(result.e)]

\* Env::maybe_exit
maybe_exit ==
  /\ pc = "maybe_exit"
  /\ LET m == MaybeExitArm(hostres)
         prim == IF m.arm = "signal" THEN "non_local_exit_signal"
                 ELSE "non_local_exit_throw"
     IN
       CASE m.arm = "ok" ->
              /\ retval' = m.a
              /\ pc' = AfterExit
              /\ UNCHANGED <<table, pending, fns, proc, kont, mode, phase, ncalls,
                             rawres, res, held, hostres, ss, reg, log, hist>>
         [] m.arm \in {"signal", "throw"} ->
              IF prim \notin table
              THEN Unwind(hist)
              ELSE /\ raise_exit(prim, IF m.arm = "signal" THEN SIGNAL ELSE THROW,
                                 m.a, m.b, AfterExit)
                   /\ retval' = m.a
                   /\ UNCHANGED <<table, fns, proc, kont, mode, phase, ncalls, rawres,
                                  res, held, hostres, ss, reg, hist>>
         [] OTHER ->
              /\ ss' = [symbol |-> m.sym, message |-> m.msg, msgh |-> NoH,
                        datah |-> NoH, caller |-> "me_unwrap"]
              /\ pc' = "ss_into_lisp"
              /\ UNCHANGED <<table, pending, fns, proc, kont, mode, phase, ncalls,
                             rawres, res, held, hostres, retval, reg, log, hist>>

\* A faulty unwrap: an Err yields a default value instead of a panic.
UnwrapOrDefault(r) == TRUE

\* unwrap_or_else(|_| panic!(..)): whether the Result is unwrapped (else panic).
UnwrapOrElsePanic(r) == r.tag = "Ok"

Unwrap(next) ==
  IF UnwrapOrElsePanic(res)
  THEN /\ retval' = res.h
       /\ pc' = next
       /\ UNCHANGED <<table, pending, fns, proc, kont, mode, phase, ncalls, rawres,
                      res, held, hostres, ss, reg, log, hist>>
  ELSE Unwind(hist)

\* maybe_exit gets signal_str's Result.
MaybeExitUnwrap == pc = "me_unwrap" /\ Unwrap(AfterExit)

\* The match of handle_panic on the caught outcome.
HandlePanicArm(caught) ==
  IF caught = "panic"
  THEN [arm |-> "signal_str", sym |-> PANIC, msg |-> PanicMessage]
  ELSE [arm |-> "ok", sym |-> "", msg |-> <<>>]

\* Env::handle_panic
handle_panic ==
  /\ pc = "handle_panic"
  /\ LET m == HandlePanicArm(phase) IN
       IF m.arm = "ok"
       THEN /\ pc' = "returned"
            /\ UNCHANGED ss
       ELSE /\ ss' = [symbol |-> m.sym, message |-> m.msg, msgh |-> NoH,
                      datah |-> NoH, caller |-> "hp_unwrap"]
            /\ pc' = "ss_into_lisp"
  /\ UNCHANGED <<table, pending, fns, proc, kont, mode, phase, ncalls, rawres, res,
                 held, hostres, retval, reg, log, hist>>

\* handle_panic gets signal_str's Result.
HandlePanicUnwrap == pc = "hp_unwrap" /\ Unwrap("returned")

----------------------------------------------------------------------------
\* Env::signal_str(symbol, message): message.into_lisp, list, intern, signal.
\* Each `?` returns the Err to the caller.
SsErr ==
  /\ pc' = ss.caller
  /\ hist' = [hist EXCEPT !.ssFailed = TRUE]
  /\ UNCHANGED <<pending, fns, rawres, res, log, kont, ss>>

\* message.into_lisp(env): make_string
SsIntoLisp ==
  /\ pc = "ss_into_lisp"
  /\ raw_call("make_string", <<CStr(ss.message)>>, NoErr, "ss_list")
  /\ UNCHANGED <<table, proc, mode, phase, ncalls, held, hostres, retval, ss, reg>>

\* env.list(&[message]): intern("list") ...
SsList ==
  /\ pc = "ss_list"
  /\ IF res.tag = "Err"
     THEN SsErr
     ELSE /\ ss' = [ss EXCEPT !.msgh = res.h]
          /\ raw_call("intern", <<CStr(<<"list">>)>>, NoErr, "ss_list_call")
  /\ UNCHANGED <<table, proc, mode, phase, ncalls, held, hostres, retval, reg>>

\* ... then funcall
SsListCall ==
  /\ pc = "ss_list_call"
  /\ IF res.tag = "Err"
     THEN SsErr
     ELSE /\ raw_call("funcall", <<res.h, ss.msgh>>, NoErr, "ss_intern")
          /\ UNCHANGED ss
  /\ UNCHANGED <<table, proc, mode, phase, ncalls, held, hostres, retval, reg>>

\* env.intern(symbol)
SsIntern ==
  /\ pc = "ss_intern"
  /\ IF res.tag = "Err"
     THEN SsErr
     ELSE /\ ss' = [ss EXCEPT !.datah = res.h]
          /\ raw_call("intern", <<CStr(<<ss.symbol>>)>>, NoErr, "ss_signal")
  /\ UNCHANGED <<table, proc, mode, phase, ncalls, held, hostres, retval, reg>>

\* Ok(env.signal(symbol.raw, data.raw))
SsSignal ==
  /\ pc = "ss_signal"
  /\ IF res.tag = "Err"
     THEN /\ SsErr
          /\ UNCHANGED <<table, proc, mode, phase, ncalls, held, hostres, retval, reg>>
     ELSE IF "non_local_exit_signal" \notin table
          THEN Unwind([hist EXCEPT !.ssFailed = TRUE])
          ELSE /\ raise_exit("non_local_exit_signal", SIGNAL, res.h, ss.datah, ss.caller)
               /\ res' = Ok(res.h)
               /\ UNCHANGED <<table, fns, proc, kont, mode, phase, ncalls, rawres,
                              held, hostres, retval, ss, reg, hist>>

----------------------------------------------------------------------------
\* HandleFunc::register(name, function, arities, doc, data), called while the
\* module is being initialized.
StartRegister ==
  /\ pc = "idle"
  /\ proc = "running"
  /\ \E n \in FnNames, nul \in BOOLEAN :
       reg' = [name |-> n, f |-> n, docNul |-> nul, fnh |-> NoH, symh |-> NoH,
               fns0 |-> fns]
  /\ mode' = "init"
  /\ pc' = "reg_make_function"
  /\ UNCHANGED <<table, pending, fns, proc, kont, phase, ncalls, rawres, res, held,
                 hostres, retval, ss, log, hist>>

\* make_function: raw_call!(self, make_function, .., CString::new(doc)?.as_ptr(), data)
make_function ==
  /\ pc = "reg_make_function"
  /\ raw_call("make_function", <<Subr(reg.f)>>,
              IF reg.docNul THEN NulError ELSE NoErr, "reg_fset")
  /\ UNCHANGED <<table, proc, mode, phase, ncalls, held, hostres, retval, ss, reg>>

\* A `?` that returns the Err from register.
RegErr ==
  /\ pc' = "reg_ret"
  /\ UNCHANGED <<pending, fns, rawres, res, log, kont, hist, reg>>

\* A faulty register: the Result of make_function is not checked.
RegisterTryNever(r) == FALSE

\* The `?` of register on make_function's Result: whether it returns early.
RegisterTry(r) == r.tag = "Err"

\* register: the `?` on make_function's Result, then fset: self.intern(name)
register ==
  /\ pc = "reg_fset"
  /\ IF RegisterTry(res)
     THEN RegErr
     ELSE /\ reg' = [reg EXCEPT !.fnh = res.h]
          /\ raw_call("intern", <<CStr(<<reg.name>>)>>, NoErr, "reg_call")
  /\ UNCHANGED <<table, proc, mode, phase, ncalls, held, hostres, retval, ss>>

\* A faulty fset: the symbol interned is the function's own name.
fset_local_name ==
  /\ pc = "reg_call"
  /\ IF res.tag = "Err"
     THEN RegErr
     ELSE /\ reg' = [reg EXCEPT !.symh = Sym(reg.f)]
          /\ raw_call("intern", <<CStr(<<"fset">>)>>, NoErr, "reg_funcall")
  /\ UNCHANGED <<table, proc, mode, phase, ncalls, held, hostres, retval, ss>>

\* fset: self.call("fset", [symbol, func]): intern("fset") ...
fset ==
  /\ pc = "reg_call"
  /\ IF res.tag = "Err"
     THEN RegErr
     ELSE /\ reg' = [reg EXCEPT !.symh = res.h]
          /\ raw_call("intern", <<CStr(<<"fset">>)>>, NoErr, "reg_funcall")
  /\ UNCHANGED <<table, proc, mode, phase, ncalls, held, hostres, retval, ss>>

\* ... then funcall
FsetFuncall ==
  /\ pc = "reg_funcall"
  /\ IF res.tag = "Err"
     THEN RegErr
     ELSE /\ raw_call("funcall", <<res.h, reg.symh, reg.fnh>>, NoErr, "reg_ret")
          /\ UNCHANGED reg
  /\ UNCHANGED <<table, proc, mode, phase, ncalls, held, hostres, retval, ss>>

\* register returns its Result to the initializer.
RegisterReturn ==
  /\ pc = "reg_ret"
  /\ pc' = "reg_done"
  /\ UNCHANGED <<table, pending, fns, proc, kont, mode, phase, ncalls, rawres, res,
                 held, hostres, retval, ss, reg, log, hist>>

----------------------------------------------------------------------------
\* Control is back in the runtime: it acts on the pending exit, if any, and
\* is ready to call in again.
RuntimeResume ==
  /\ pc \in {"returned", "reg_done"}
  /\ pc' = "idle"
  /\ pending' = Quiet
  /\ kont' = <<>>
  /\ mode' = "none"
  /\ phase' = "none"
  /\ ncalls' = 0
  /\ rawres' = NoH
  /\ res' = NoRes
  /\ held' = NoErr
  /\ hostres' = NoRes
  /\ retval' = NoH
  /\ ss' = NoSs
  /\ reg' = NoReg
  /\ log' = <<>>
  /\ hist' = NoHist
  /\ UNCHANGED <<table, fns, proc>>

Next ==
  \/ CallSubr /\ UNCHANGED lvars
  \/ CallTrampoline /\ UNCHANGED lvars
  \/ LogicCall /\ UNCHANGED lvars
  \/ LogicGot /\ UNCHANGED lvars
  \/ LogicReturn /\ UNCHANGED lvars
  \/ LogicPanic /\ UNCHANGED lvars
  \/ handle_exit /\ UNCHANGED lvars
  \/ maybe_exit /\ UNCHANGED lvars
  \/ MaybeExitUnwrap /\ UNCHANGED lvars
  \/ handle_panic /\ UNCHANGED lvars
  \/ HandlePanicUnwrap /\ UNCHANGED lvars
  \/ SsIntoLisp /\ UNCHANGED lvars
  \/ SsList /\ UNCHANGED lvars
  \/ SsListCall /\ UNCHANGED lvars
  \/ SsIntern /\ UNCHANGED lvars
  \/ SsSignal /\ UNCHANGED lvars
  \/ StartRegister /\ UNCHANGED lvars
  \/ make_function /\ UNCHANGED lvars
  \/ register /\ UNCHANGED lvars
  \/ fset /\ UNCHANGED lvars
  \/ FsetFuncall /\ UNCHANGED lvars
  \/ RegisterReturn /\ UNCHANGED lvars
  \/ RuntimeResume /\ UNCHANGED lvars

Spec == Init /\ [][Next]_vars

----------------------------------------------------------------------------
\* The plugin load sequence: the initializer Module::gen_init generates
\* (__emrs_auto_init__), called by an entry point of emacs_module_init!.

\* The statements of the generated initializer, in the order of its body.
InitBodyHookFirst ==
  <<"set_feature", "set_prefix", "configure_mod_in_name", "hook",
    "export_lisp_funcs", "provide">>
InitBodyPrefixLate ==
  <<"set_feature", "configure_mod_in_name", "export_lisp_funcs", "set_prefix",
    "hook", "provide">>
InitBody ==
  <<"set_feature", "set_prefix", "configure_mod_in_name", "export_lisp_funcs",
    "hook", "provide">>
Returned == Len(InitBody) + 1

\* Loader p is about to execute statement stmt of the initializer.
At(p, stmt) ==
  /\ proc = "running"
  /\ ld[p].ip \in 1..Len(InitBody)
  /\ InitBody[ld[p].ip] = stmt

\* set_feature: the feature's name, from the name option.
set_feature(opts) ==
  CASE opts.name.kind = "Crate" -> opts.crate
    [] opts.name.kind = "Fn" -> opts.hook
    [] OTHER -> opts.name.s

\* A faulty acquisition: the lock is taken whether it is held or not.
try_lock_steal(holder) == TRUE

\* try_lock(): whether the lock is acquired; if not, expect(..) panics.
try_lock(holder) == holder = NoOne

\* The full Lisp name of a function: prefix, then the module path when
\* mod_in_name is set, then the local name.
FullName(pre, flag, path, n) ==
  pre[1] \o pre[2] \o (IF flag /\ path # "" THEN path \o pre[2] ELSE "") \o n

\* A faulty loop: the Result of an initializer is dropped.
ExportTryNever(r) == FALSE

\* `func(env)?` in export_lisp_funcs: whether the loop returns early.
ExportTry(r) == r.tag = "Err"

\* `hook(env)?`: whether the initializer returns early.
HookTry(r) == r.tag = "Err"

\* A faulty entry point: every outcome reports success.
emacs_module_init_zero(r) == 0

\* emacs_module_init: the status for the initializer's Result.
emacs_module_init(r) == IF r.tag = "Ok" THEN 0 ELSE 1

\* emacs_rs_module_init: the status for the initializer's Result.
emacs_rs_module_init(r) == IF r.tag = "Ok" THEN 0 ELSE 1

\* The bridge's state when a call made by a load sequence is over.
LeaveBridge ==
  /\ pc' = "idle"
  /\ who' = NoOne
  /\ kont' = <<>>
  /\ mode' = "none"
  /\ phase' = "none"
  /\ ncalls' = 0
  /\ rawres' = NoH
  /\ res' = NoRes
  /\ held' = NoErr
  /\ hostres' = NoRes
  /\ retval' = NoH
  /\ ss' = NoSs
  /\ reg' = NoReg
  /\ log' = <<>>
  /\ hist' = NoHist
  /\ UNCHANGED <<table, pending, fns, proc>>

\* A panic in the initializer: nothing catches it below the entry point.
LoadPanic(p, why) ==
  /\ Unwind(hist)
  /\ ld' = [ld EXCEPT ![p].died = why]
  /\ UNCHANGED <<prefix, modInName, plock, flock, who>>

\* The initializer returns Result r to the entry point that called it, which
\* returns the status for it: the load sequence of p after that.
InitReturns(p, r, l) ==
  \E status \in {emacs_module_init(r), emacs_rs_module_init(r)} :
    ld' = [l EXCEPT ![p].ip = Returned, ![p].status = status,
                    ![p].provided = (r.tag = "Ok"), ![p].failed = (r.tag # "Ok")]

\* The runtime's loader calls an entry point of plugin p.
LdStart(p) ==
  /\ proc = "running"
  /\ ld[p].ip = 0
  /\ ld' = [ld EXCEPT ![p].ip = 1]
  /\ UNCHANGED <<table, pending, fns, proc, pc, kont, mode, phase, ncalls, rawres, res,
                 held, hostres, retval, ss, reg, log, hist, prefix, modInName, plock,
                 flock, who>>

LdSetFeature(p) ==
  /\ At(p, "set_feature")
  /\ ld' = [ld EXCEPT ![p].ip = @ + 1, ![p].feature = set_feature(ModuleOpts(p))]
  /\ UNCHANGED <<table, pending, fns, proc, pc, kont, mode, phase, ncalls, rawres, res,
                 held, hostres, retval, ss, reg, log, hist, prefix, modInName, plock,
                 flock, who>>

\* set_prefix: prefix.try_lock().expect(..)
LdLockPrefix(p) ==
  /\ At(p, "set_prefix")
  /\ plock # p
  /\ IF try_lock(plock)
     THEN /\ plock' = p
          /\ UNCHANGED <<table, pending, fns, proc, pc, kont, mode, phase, ncalls,
                         rawres, res, held, hostres, retval, ss, reg, log, hist, prefix,
                         modInName, flock, who, ld>>
     ELSE LoadPanic(p, "prefix")

\* set_prefix: *prefix = [feature, separator]; the guard is dropped.
LdWritePrefix(p) ==
  /\ At(p, "set_prefix")
  /\ plock = p
  /\ prefix' = <<ld[p].feature, ModuleOpts(p).separator>>
  /\ plock' = NoOne
  /\ ld' = [ld EXCEPT ![p].ip = @ + 1, ![p].trail = Append(@, "set_prefix")]
  /\ UNCHANGED <<table, pending, fns, proc, pc, kont, mode, phase, ncalls, rawres, res,
                 held, hostres, retval, ss, reg, log, hist, modInName, flock, who>>

LdConfigureModInName(p) ==
  /\ At(p, "configure_mod_in_name")
  /\ modInName' = ModuleOpts(p).mod_in_name
  /\ ld' = [ld EXCEPT ![p].ip = @ + 1]
  /\ UNCHANGED <<table, pending, fns, proc, pc, kont, mode, phase, ncalls, rawres, res,
                 held, hostres, retval, ss, reg, log, hist, prefix, plock, flock, who>>

\* export_lisp_funcs: init_fns.try_lock().expect(..)
LdLockFuncs(p) ==
  /\ At(p, "export_lisp_funcs")
  /\ flock # p
  /\ IF try_lock(flock)
     THEN /\ flock' = p
          /\ ld' = [ld EXCEPT ![p].k = 1, ![p].rd = <<>>]
          /\ UNCHANGED <<table, pending, fns, proc, pc, kont, mode, phase, ncalls,
                         rawres, res, held, hostres, retval, ss, reg, log, hist, prefix,
                         modInName, plock, who>>
     ELSE LoadPanic(p, "init_fns")

\* An initializer of the map reads the prefix slot (under its lock, released
\* after the read) and the mod_in_name flag.
LdReadPrefix(p) ==
  /\ At(p, "export_lisp_funcs")
  /\ flock = p
  /\ ld[p].k <= Len(ModuleOpts(p).init_fns)
  /\ ld[p].rd = <<>>
  /\ IF try_lock(plock)
     THEN /\ ld' = [ld EXCEPT ![p].rd = prefix, ![p].flag = modInName]
          /\ UNCHANGED <<table, pending, fns, proc, pc, kont, mode, phase, ncalls,
                         rawres, res, held, hostres, retval, ss, reg, log, hist, prefix,
                         modInName, plock, flock, who>>
     ELSE LoadPanic(p, "prefix")

\* The initializer registers its function under the full name.
LdRegister(p) ==
  /\ At(p, "export_lisp_funcs")
  /\ flock = p
  /\ ld[p].rd # <<>>
  /\ pc = "idle"
  /\ who = NoOne
  /\ LET n == ModuleOpts(p).init_fns[ld[p].k] IN
       /\ reg' = [name |-> FullName(ld[p].rd, ld[p].flag, ModuleOpts(p).path, n),
                  f |-> n, docNul |-> FALSE, fnh |-> NoH, symh |-> NoH, fns0 |-> fns]
       /\ ld' = [ld EXCEPT ![p].trail = Append(@, "register " \o n)]
  /\ mode' = "init"
  /\ pc' = "reg_make_function"
  /\ who' = p
  /\ UNCHANGED <<table, pending, fns, proc, kont, phase, ncalls, rawres, res, held,
                 hostres, retval, ss, log, hist, prefix, modInName, plock, flock>>

\* `func(env)?`: on Err the initializer returns it (the guard of the map is
\* dropped), otherwise the loop goes on.
LdRegistered(p) ==
  /\ At(p, "export_lisp_funcs")
  /\ who = p
  /\ pc = "reg_done"
  /\ IF ExportTry(res)
     THEN /\ InitReturns(p, res, [ld EXCEPT ![p].rd = <<>>])
          /\ flock' = NoOne
     ELSE /\ ld' = [ld EXCEPT ![p].k = @ + 1, ![p].rd = <<>>,
                              ![p].bound = IF res.tag = "Ok" THEN @ \cup {reg.name}
                                           ELSE @]
          /\ UNCHANGED flock
  /\ LeaveBridge
  /\ UNCHANGED <<prefix, modInName, plock>>

\* The loop is over: the guard of the map is dropped.
LdExportEnd(p) ==
  /\ At(p, "export_lisp_funcs")
  /\ flock = p
  /\ ld[p].k > Len(ModuleOpts(p).init_fns)
  /\ flock' = NoOne
  /\ ld' = [ld EXCEPT ![p].ip = @ + 1]
  /\ UNCHANGED <<table, pending, fns, proc, pc, kont, mode, phase, ncalls, rawres, res,
                 held, hostres, retval, ss, reg, log, hist, prefix, modInName, plock,
                 who>>

\* The Results the user's hook can return.
HookResults == {Ok(Obj(1))} \cup {Err(Other(m)) : m \in OtherMsgs}

\* `hook(env)?`, or the hook panics.
LdHook(p) ==
  /\ At(p, "hook")
  /\ \/ \E r \in HookResults :
          /\ IF HookTry(r)
             THEN InitReturns(p, r, [ld EXCEPT ![p].trail = Append(@, "hook")])
             ELSE ld' = [ld EXCEPT ![p].ip = @ + 1, ![p].trail = Append(@, "hook")]
          /\ UNCHANGED <<table, pending, fns, proc, pc, kont, mode, phase, ncalls,
                         rawres, res, held, hostres, retval, ss, reg, log, hist, prefix,
                         modInName, plock, flock, who>>
     \/ LoadPanic(p, "hook")

\* env.provide(&feature): a call of the runtime's provide.
LdProvide(p) ==
  /\ At(p, "provide")
  /\ pc = "idle"
  /\ who = NoOne
  /\ raw_call("funcall", <<Sym("provide"), Sym(ld[p].feature)>>, NoErr, "prov_ret")
  /\ who' = p
  /\ mode' = "init"
  /\ ld' = [ld EXCEPT ![p].trail = Append(@, "provide")]
  /\ UNCHANGED <<table, proc, phase, ncalls, held, hostres, retval, ss, reg, prefix,
                 modInName, plock, flock>>

\* The Result of provide is the Result of the initializer.
LdProvided(p) ==
  /\ At(p, "provide")
  /\ who = p
  /\ pc = "prov_ret"
  /\ InitReturns(p, res, ld)
  /\ LeaveBridge
  /\ UNCHANGED <<prefix, modInName, plock, flock>>

LoadNext ==
  \/ \E p \in Plugins : LdStart(p)
  \/ \E p \in Plugins : LdSetFeature(p)
  \/ \E p \in Plugins : LdLockPrefix(p)
  \/ \E p \in Plugins : LdWritePrefix(p)
  \/ \E p \in Plugins : LdConfigureModInName(p)
  \/ \E p \in Plugins : LdLockFuncs(p)
  \/ \E p \in Plugins : LdReadPrefix(p)
  \/ \E p \in Plugins : LdRegister(p)
  \/ \E p \in Plugins : LdRegistered(p)
  \/ \E p \in Plugins : LdExportEnd(p)
  \/ \E p \in Plugins : LdHook(p)
  \/ \E p \in Plugins : LdProvide(p)
  \/ \E p \in Plugins : LdProvided(p)
  \/ make_function /\ who # NoOne /\ UNCHANGED lvars
  \/ handle_exit /\ who # NoOne /\ UNCHANGED lvars
  \/ register /\ who # NoOne /\ UNCHANGED lvars
  \/ fset /\ who # NoOne /\ UNCHANGED lvars
  \/ FsetFuncall /\ who # NoOne /\ UNCHANGED lvars
  \/ RegisterReturn /\ who # NoOne /\ UNCHANGED lvars

\* The primitives a load sequence looks up; a table that lacks another one
\* serves it like the full table.
LoadPrims == {"make_function", "intern", "funcall", "non_local_exit_get",
              "non_local_exit_clear"}
LoadInit == Init /\ AllPrims \ table \subseteq LoadPrims

LoadSpec == LoadInit /\ [][LoadNext]_vars

----------------------------------------------------------------------------
\* Properties.

NClears(l) == Cardinality({i \in DOMAIN l : l[i].op = "non_local_exit_clear"})
RaiseOps == {"non_local_exit_signal", "non_local_exit_throw"}
\* maybe_exit has returned a raw value (to emacs_subrs! or to handle_panic).
ExitReturned == phase = "exit" /\ pc \in {"returned", "handle_panic"}

\* C1: a handle_exit step that finds status RETURN yields Ok with the prior raw
\* result and invokes only the exit query; with SIGNAL it yields
\* Err(Signal{symbol, data}) and with THROW Err(Throw{tag, value}), carrying
\* the two handles the query reported, and non_local_exit_clear is invoked
\* exactly in these two cases (the query and clear primitives being present).
C1_HandleExit ==
  [][(/\ pc = "handle_exit"
      /\ pending.st \in {RETURN, SIGNAL, THROW}
      /\ "non_local_exit_get" \in table
      /\ (pending.st = RETURN \/ "non_local_exit_clear" \in table))
     => /\ pc' = Head(kont)
        /\ pending.st = RETURN =>
             /\ res' = Ok(rawres)
             /\ log' = Append(log, GetEntry)
             /\ pending' = pending
        /\ pending.st = SIGNAL =>
             /\ res' = [tag |-> "Err", h |-> NoH,
                        e |-> [kind |-> "Signal", a |-> pending.a, b |-> pending.b,
                               s |-> ""]]
             /\ log' = log \o <<GetEntry, ClearEntry>>
             /\ pending'.st = RETURN
        /\ pending.st = THROW =>
             /\ res' = [tag |-> "Err", h |-> NoH,
                        e |-> [kind |-> "Throw", a |-> pending.a, b |-> pending.b,
                               s |-> ""]]
             /\ log' = log \o <<GetEntry, ClearEntry>>
             /\ pending'.st = RETURN]_vars

C1_Witness ==
  /\ pc = "logic_got"
  /\ res.tag = "Err"
  /\ res.e.kind = "Throw"
  /\ res.e.a # res.e.b
  /\ Len(log) = 3
  /\ log[3] = ClearEntry

\* C2: every exit the runtime raises during a raw_call! is cleared exactly
\* once: no clear is ever issued without an uncleared exit, at most one exit
\* is uncleared at a time, a handle_exit that returns to its caller has issued
\* one clear if a signal or throw was pending and none otherwise and leaves no
\* exit pending, and nothing but handle_exit clears.
C2_ClearedExactlyOnce ==
  [][/\ ~hist'.overcleared
     /\ hist'.uncleared <= 1
     /\ (pc = "handle_exit" /\ pc' \notin {"dead", "handle_panic"})
          => /\ hist'.uncleared = 0
             /\ pending'.st = RETURN
             /\ NClears(log') =
                  NClears(log) + (IF pending.st \in {SIGNAL, THROW} THEN 1 ELSE 0)
     /\ pc # "handle_exit" => NClears(log') <= NClears(log)]_vars

C2_Witness ==
  /\ pc = "logic_got"
  /\ ncalls = 2
  /\ held.kind = "Signal"
  /\ res.tag = "Err"
  /\ res.e.kind = "Throw"
  /\ hist.uncleared = 0
  /\ pending.st = RETURN

\* C3: when maybe_exit has returned for Err(Signal{symbol, data}) it has
\* invoked non_local_exit_signal once with these two handles and nothing else;
\* for Err(Throw{tag, value}) non_local_exit_throw once with these two.
C3_ReRaiseExact ==
  /\ pc = "maybe_exit" => log = <<>>
  /\ (ExitReturned /\ hostres.tag = "Err" /\ hostres.e.kind = "Signal")
       => log = <<[op |-> "non_local_exit_signal", args |-> <<hostres.e.a, hostres.e.b>>]>>
  /\ (ExitReturned /\ hostres.tag = "Err" /\ hostres.e.kind = "Throw")
       => log = <<[op |-> "non_local_exit_throw", args |-> <<hostres.e.a, hostres.e.b>>]>>

C3_Witness ==
  /\ pc = "returned"
  /\ hostres.tag = "Err"
  /\ hostres.e.kind = "Signal"
  /\ hostres.e.a # hostres.e.b
  /\ Len(log) = 1

\* C4: when an exported function returns after its host logic propagated,
\* unchanged, the error of a call during which the runtime raised a signal or
\* throw, the runtime has a pending exit of that kind with those handles.
C4_Transparent ==
  (pc = "returned" /\ hist.heldExit.st \in {SIGNAL, THROW}) => pending = hist.heldExit

C4_Witness ==
  /\ pc = "returned"
  /\ mode = "subr"
  /\ hist.heldExit.st = THROW
  /\ hist.heldExit.a # hist.heldExit.b
  /\ pending.st = THROW

\* C5: once the host logic of an exported function has panicked, the process
\* keeps running, and when the call has returned a signal with the symbol
\* rust-panic (which is not rust-error) is pending.
C5_PanicContained ==
  hist.panicked =>
    /\ proc = "running"
    /\ pc # "dead"
    /\ pc = "returned" => (pending.st = SIGNAL /\ pending.a = Sym(PANIC))
    /\ PANIC # ERROR

\* C6: maybe_exit given Ok(handle) returns this handle, invokes no primitive
\* and leaves the runtime's state as it was.
C6_OkUntouched ==
  [][(pc = "maybe_exit" /\ hostres.tag = "Ok")
     => /\ retval' = hostres.h
        /\ pc' \in {"returned", "handle_panic"}
        /\ log' = log
        /\ pending' = pending
        /\ fns' = fns
        /\ proc' = proc]_vars

C6_Witness ==
  /\ pc = "returned"
  /\ mode = "subr"
  /\ hostres = Ok(Obj(2))
  /\ retval = Obj(2)
  /\ log = <<>>

\* C7: when maybe_exit has returned for an error that is neither Signal nor
\* Throw, it has raised exactly one exit, a signal whose symbol is
\* rust-wrong-type-user-ptr for a type mismatch and rust-error otherwise and
\* whose data is the list holding the rendered message; for a missing
\* primitive the message names it.
C7_WrapAsSignal ==
  (ExitReturned /\ hostres.tag = "Err" /\ hostres.e.kind \notin {"Signal", "Throw"})
  => LET sym == IF hostres.e.kind = "WrongTypeUserPtr"
                THEN Sym("rust-wrong-type-user-ptr") ELSE Sym("rust-error")
         data == List1(Str(Display(hostres.e)))
     IN /\ {i \in DOMAIN log : log[i].op \in RaiseOps} = {Len(log)}
        /\ log[Len(log)] = [op |-> "non_local_exit_signal", args |-> <<sym, data>>]
        /\ pending = [st |-> SIGNAL, a |-> sym, b |-> data]
        /\ hostres.e.kind = "CoreFnMissing"
             => \E i \in DOMAIN pending.b : pending.b[i] = hostres.e.s

C7_Witness ==
  /\ pc = "returned"
  /\ hostres.tag = "Err"
  /\ hostres.e.kind = "CoreFnMissing"
  /\ hostres.e.s = "extract_integer"
  /\ pending.st = SIGNAL
  /\ pending.a = Sym(ERROR)

\* C8: once signal_str has failed, for maybe_exit or for handle_panic, control
\* is with the caller's unwrap or the process is dead: it never returns to
\* the runtime.
C8_SignalFailureFatal ==
  hist.ssFailed =>
    /\ pc \in {"me_unwrap", "hp_unwrap", "dead"}
    /\ pc = "dead" => proc \in {"aborted", "unwound"}

C8_Witness ==
  /\ hist.ssFailed
  /\ pc = "dead"
  /\ mode = "subr"
  /\ "non_local_exit_signal" \in table

\* C9: a handle_exit step that finds a status other than RETURN, SIGNAL and
\* THROW panics: it yields no Result and clears nothing; and while such a
\* status is pending, control never gets back to host logic or to the runtime.
C9_UnknownStatusFatal ==
  [][/\ (pc = "handle_exit" /\ pending.st \notin {RETURN, SIGNAL, THROW})
          => /\ pc' \in {"dead", "handle_panic"}
             /\ res' = NoRes
             /\ pending' = pending
             /\ NClears(log') = 0
     /\ pending'.st \notin {RETURN, SIGNAL, THROW}
          => pc' \in {"handle_exit", "handle_panic", "ss_into_lisp", "ss_list",
                      "hp_unwrap", "dead"}]_vars

C9_Witness ==
  /\ pc = "dead"
  /\ mode = "tramp"
  /\ pending.st \notin {RETURN, SIGNAL, THROW}

\* C10: register makes a binding call (intern, funcall) only after
\* make_function has succeeded: with the creation primitive absent it returns
\* the missing-function error naming make_function, with a signal or throw
\* raised during creation it returns the matching Signal / Throw error, and in
\* both cases no binding call is made and the namespace is unchanged (while
\* the process lives: a panic of handle_exit ends it).
NoBinding == \A i \in DOMAIN log : log[i].op \notin {"intern", "funcall"}
RegReturned == pc \in {"reg_ret", "reg_done"}
C10_BindAfterCreate ==
  (mode = "init" /\ pc # "dead") =>
    /\ "make_function" \notin table =>
         /\ NoBinding
         /\ fns = reg.fns0
         /\ RegReturned => res = Err(CoreFnMissing("make_function"))
    /\ hist.createRaise.st \in {SIGNAL, THROW} =>
         /\ NoBinding
         /\ fns = reg.fns0
         /\ RegReturned =>
              /\ res.tag = "Err"
              /\ res.e.kind = (IF hist.createRaise.st = SIGNAL THEN "Signal" ELSE "Throw")
              /\ res.e.a = hist.createRaise.a
              /\ res.e.b = hist.createRaise.b
    /\ ~NoBinding =>
         /\ log[1].op = "make_function"
         /\ log[2] = GetEntry
         /\ log[3].op = "intern"

C10_Witness ==
  /\ pc = "reg_done"
  /\ hist.createRaise.st = THROW
  /\ hist.createRaise.a # hist.createRaise.b
  /\ reg.fns0 # {}
  /\ fns = reg.fns0

----------------------------------------------------------------------------
\* Properties of the load sequence.

\* The steps of a complete load of plugin p, in order.
Canon(p) ==
  <<"set_prefix">>
  \o [i \in 1..Len(ModuleOpts(p).init_fns) |-> "register " \o ModuleOpts(p).init_fns[i]]
  \o <<"hook", "provide">>
IsPrefix(t, c) == Len(t) <= Len(c) /\ \A i \in 1..Len(t) : t[i] = c[i]
Ended(p) == ld[p].failed \/ ld[p].died # ""

\* C11: the steps of a plugin's load happen in the order prefix, every
\* pending function, hook, provide, none repeated or skipped; the load is in
\* the Provided state only after all of them; and once a step has failed no
\* later step happens and Provided is never reached.
C11_LoadOrder ==
  [][\A p \in Plugins :
       /\ IsPrefix(ld'[p].trail, Canon(p))
       /\ IsPrefix(ld[p].trail, ld'[p].trail)
       /\ ld[p].ip <= ld'[p].ip
       /\ (\E i \in DOMAIN ld'[p].trail : ld'[p].trail[i] = "hook")
            => Cardinality(ld'[p].bound) = Len(ModuleOpts(p).init_fns)
       /\ ld'[p].provided => (ld'[p].trail = Canon(p) /\ ~ld'[p].failed)
       /\ Ended(p) => (ld'[p].trail = ld[p].trail /\ ~ld'[p].provided)]_vars

C11_Witness ==
  /\ ld["P"].provided
  /\ ld["P"].trail = Canon("P")
  /\ ld["Q"].failed
  /\ Len(ld["Q"].trail) = 2

\* C12: an entry point returns 0 exactly when the initializer returned Ok
\* (prefix, every registration, hook and provide succeeded) and 1 for every
\* Err, whichever of the two entry points was called.
C12_InitStatus ==
  [][\A p \in Plugins :
       /\ ld'[p].status # ld[p].status =>
            /\ ld[p].status = -1
            /\ ld'[p].ip = Returned
            /\ ld'[p].status = 0 <=> (ld'[p].provided /\ ld'[p].trail = Canon(p))
            /\ ld'[p].status = 1 <=> ld'[p].failed
            /\ ld'[p].status \in {0, 1}
       /\ ld'[p].ip = Returned => ld'[p].status \in {0, 1}]_vars

C12_Witness ==
  /\ ld["P"].status = 1
  /\ ld["P"].trail = <<"set_prefix", "register greet", "register hi", "hook">>
  /\ ld["Q"].status = 0

\* C13: a load sequence that finds the prefix lock or the lock of the map of
\* initializers held by another party does not get past the acquisition: its
\* only step is the panic, which ends the process, and from then on no prefix
\* write and no registration happens.
AtAcquire(p) ==
  /\ ld[p].ip \in 1..Len(InitBody)
  /\ \/ InitBody[ld[p].ip] = "set_prefix" /\ plock \notin {NoOne, p}
     \/ InitBody[ld[p].ip] = "export_lisp_funcs" /\ flock \notin {NoOne, p}
     \/ /\ InitBody[ld[p].ip] = "export_lisp_funcs"
        /\ flock = p
        /\ ld[p].rd = <<>>
        /\ ld[p].k <= Len(ModuleOpts(p).init_fns)
        /\ plock \notin {NoOne, p}
C13_LockHeldFatal ==
  [][/\ \A p \in Plugins :
          AtAcquire(p) =>
            \/ ld'[p] = ld[p] /\ plock' # p /\ (flock' = p <=> flock = p)
            \/ /\ proc' \in {"aborted", "unwound"}
               /\ ld'[p].died \in {"prefix", "init_fns"}
               /\ UNCHANGED <<prefix, fns, plock, flock>>
     /\ (\E p \in Plugins : ld[p].died # "") => UNCHANGED <<prefix, fns, ld>>]_vars

C13_Witness ==
  /\ ld["Q"].died = "init_fns"
  /\ flock = "P"
  /\ proc \in {"aborted", "unwound"}
  /\ ld["P"].bound # {}

\* C14: the prefix slot changes only in the set_prefix step of a load, which
\* is the first step of that load (before any registration) and writes
\* [feature, separator]; that load writes it no second time, so no
\* registration, hook or provide step changes it.
WroteStep(p) == ld'[p].trail = Append(ld[p].trail, "set_prefix")
C14_PrefixWrittenOnce ==
  [][/\ prefix' # prefix => \E p \in Plugins : WroteStep(p)
     /\ \A p \in Plugins :
          /\ WroteStep(p) =>
               /\ ld[p].trail = <<>>
               /\ ld[p].bound = {}
               /\ prefix' = <<set_feature(ModuleOpts(p)), ModuleOpts(p).separator>>
          /\ ld'[p].trail # <<>> =>
               /\ ld'[p].trail[1] = "set_prefix"
               /\ \A i \in 2..Len(ld'[p].trail) : ld'[p].trail[i] # "set_prefix"]_vars

C14_Witness ==
  /\ ld["P"].provided
  /\ prefix = <<"mylib", "-">>
  /\ ld["Q"].ip = 0
  /\ Cardinality(ld["P"].bound) = 2

----------------------------------------------------------------------------
\* Properties of the dispatch-table lookup.

NewEntries == {i \in DOMAIN log' : i > Len(log)}

\* C15: a lookup of a present slot goes on to call that primitive, a lookup of
\* an absent slot is the missing-function error naming the slot: the process
\* does not die, no primitive is called and the pending exit stays as it was.
\* This holds for every call of host logic, whatever earlier lookups gave, and
\* for every lookup the bridge itself makes through raw_call!.
C15_RawFnLookup ==
  [][/\ (pc = "logic" /\ ncalls' = ncalls + 1)
          => \E name \in LogicPrims :
               IF name \in table
               THEN /\ pc' = "handle_exit"
                    /\ log' = Append(log, [op |-> name, args |-> <<Obj(1)>>])
               ELSE /\ pc' = "logic_got"
                    /\ res' = Err(CoreFnMissing(name))
                    /\ log' = log
                    /\ pending' = pending
                    /\ fns' = fns
                    /\ proc' = proc
     /\ (res' # res /\ res'.tag = "Err" /\ res'.e.kind = "CoreFnMissing")
          => /\ res'.e.s \in AllPrims \ table
             /\ log' = log
             /\ pending' = pending
             /\ proc' = proc
             /\ pc' # "dead"
     /\ (Len(log') > Len(log))
          => \A i \in NewEntries : log'[i].op \in table]_vars

\* Host logic kept the error of a lookup of an absent slot, and its next call,
\* of a present slot, returned a value.
C15_Witness ==
  /\ pc = "logic_got"
  /\ ncalls = 2
  /\ held.kind = "CoreFnMissing"
  /\ held.s \notin table
  /\ res.tag = "Ok"
  /\ log # <<>>

----------------------------------------------------------------------------
\* Properties of the names functions are bound under.

\* The local name of the function plugin p is registering.
Local(p) == ModuleOpts(p).init_fns[ld[p].k]
NewBindings == {x \in fns : x \notin reg.fns0}

\* C16: when the registration of the function with local name n has returned
\* Ok in a load that read the prefix state (f, s) with mod-in-name disabled,
\* the function is bound under the name f + s + n and the registration bound
\* no other name.
C16_FullName ==
  \A p \in Plugins :
    (who = p /\ pc = "reg_done" /\ res.tag = "Ok" /\ ~ld[p].flag)
      => LET name == ld[p].rd[1] \o ld[p].rd[2] \o Local(p) IN
           /\ <<name, Fn(Local(p))>> \in fns
           /\ \A x \in NewBindings : x[1] = name

\* "greet" was registered with the prefix state ("mylib", "-") and is bound
\* under "mylib-greet".
C16_Witness ==
  /\ who = "P"
  /\ pc = "reg_done"
  /\ res.tag = "Ok"
  /\ ~ld["P"].flag
  /\ ld["P"].rd = <<"mylib", "-">>
  /\ Local("P") = "greet"
  /\ NewBindings = {<<"mylib-greet", Fn("greet")>>}

----------------------------------------------------------------------------
\* Properties of a failed registration.

BoundNames(f) == {x[1] : x \in f}
RegFails(p) == who = p /\ pc = "reg_done" /\ res.tag = "Err"

\* C17: when the registration of the k-th function of a load returns Err, the
\* load returns that failure (status 1, never Provided) in its next step,
\* which leaves the function namespace as it is: the k - 1 functions bound
\* before stay bound, then and ever after.  The k-th registration was tried
\* once, no later function, hook or provide step follows, and the failed load
\* never enters the bridge again.
C17_NoRollback ==
  [][\A p \in Plugins :
       /\ (RegFails(p) /\ ld'[p] # ld[p]) =>
            /\ ld'[p].failed /\ ~ld'[p].provided /\ ld'[p].status = 1
            /\ fns' = fns
            /\ ld'[p].bound = ld[p].bound
            /\ Cardinality(ld[p].bound) = ld[p].k - 1
            /\ ld'[p].trail = ld[p].trail
            /\ Len(ld[p].trail) = ld[p].k + 1
            /\ ld[p].trail[ld[p].k + 1] = "register " \o Local(p)
       /\ ld'[p].bound \subseteq BoundNames(fns')
       /\ ld[p].failed => (who' # p /\ ld'[p] = ld[p])]_vars

\* The registration of P's second function failed: the load has returned 1
\* and the first function is still bound.
C17_Witness ==
  /\ ld["P"].failed
  /\ ld["P"].status = 1
  /\ ld["P"].trail = <<"set_prefix", "register greet", "register hi">>
  /\ ld["P"].bound = {"mylib-greet"}
  /\ "mylib-greet" \in BoundNames(fns)
  /\ "mylib-hi" \notin BoundNames(fns)

----------------------------------------------------------------------------
\* The conditions the bridge defines.

\* A faulty define_errors: rust-panic is made a child of rust-error.
define_errors_panic_under_error ==
  <<[name |-> ERROR, message |-> "Rust error", parent |-> "error"],
    [name |-> PANIC, message |-> "Rust panic", parent |-> ERROR],
    [name |-> WRONG_TYPE_USER_PTR, message |-> "Wrong type user-ptr", parent |-> ERROR]>>

\* Env::define_errors: the calls of define_error it makes, in order.
define_errors ==
  <<[name |-> PANIC, message |-> "Rust panic", parent |-> "error"],
    [name |-> ERROR, message |-> "Rust error", parent |-> "error"],
    [name |-> WRONG_TYPE_USER_PTR, message |-> "Wrong type user-ptr", parent |-> ERROR]>>

ConditionNames == {"error", PANIC, ERROR, WRONG_TYPE_USER_PTR}

\* The conditions of each symbol before the bridge defines any: only the
\* runtime's own `error` is a condition.
BuiltinConditions == [s \in ConditionNames |-> IF s = "error" THEN {"error"} ELSE {}]

\* Env::define_error(name, message, parent): define-error gives the symbol
\* its own name and the conditions of its parent.
define_error(conds, d) == [conds EXCEPT ![d.name] = {d.name} \cup conds[d.parent]]

RECURSIVE DefineAll(_, _)
DefineAll(conds, ds) ==
  IF ds = <<>> THEN conds ELSE DefineAll(define_error(conds, Head(ds)), Tail(ds))

\* The conditions of each symbol once define_errors has run.
ErrorConditions == DefineAll(BuiltinConditions, define_errors)

\* A handler that selects condition h catches a signal of symbol s exactly
\* when h is among the conditions of s.
Catches(h, s) == h \in ErrorConditions[s]

----------------------------------------------------------------------------
\* Properties of the conditions.

SignalledSymbol == pending.st = SIGNAL /\ pending.a[1] = "sym"

\* C18: when an exported call returns with a signal of one of the bridge's
\* symbols pending, a handler selecting rust-error does not catch it if it
\* stands for a host panic (a handler selecting rust-panic does), and a
\* handler selecting rust-panic does not catch it if it stands for an
\* ordinary error or a type mismatch of the host result (a handler selecting
\* rust-error does).
C18_SelectiveCatch ==
  (pc = "returned" /\ SignalledSymbol)
    => LET s == pending.a[2] IN
         /\ s \in {PANIC, ERROR, WRONG_TYPE_USER_PTR}
         /\ hist.panicked => (~Catches(ERROR, s) /\ Catches(PANIC, s))
         /\ (~hist.panicked /\ hostres.tag = "Err")
              => (~Catches(PANIC, s) /\ Catches(ERROR, s))

\* A caught host panic has been signalled as rust-panic and the call has
\* returned to the runtime.
C18_Witness ==
  /\ pc = "returned"
  /\ hist.panicked
  /\ pending = [st |-> SIGNAL, a |-> Sym(PANIC), b |-> List1(Str(PanicMessage))]

----------------------------------------------------------------------------
\* Properties of the pending exit over an exported call.

\* C19: whenever host logic is running, before its first call and after each
\* call made through raw_call! has returned to it with Ok or Err, no exit is
\* pending, and none is pending when its Result reaches maybe_exit; when the
\* exported function returns the Result's outcome to the runtime, an exit is
\* pending exactly when the Result was an Err; maybe_exit is entered only
\* from host logic returning, and once it is entered the call neither goes
\* back to host logic nor enters maybe_exit again.
C19_PendingDiscipline ==
  [][/\ (pc' \in {"logic", "logic_got", "maybe_exit"}) => pending'.st = RETURN
     /\ (pc' = "returned" /\ phase' = "exit")
          => (pending'.st # RETURN <=> hostres'.tag = "Err")
     /\ (pc' = "returned" /\ phase' = "exit")
          => hostres'.tag \in {"Ok", "Err"}
     /\ (pc' = "maybe_exit" /\ pc # "maybe_exit")
          => (pc = "logic" /\ phase = "logic" /\ phase' = "exit")
     /\ (phase = "exit" /\ phase' = "exit")
          => pc' \notin {"logic", "logic_got", "maybe_exit"}]_vars

\* Host logic returned the Err of a signal (one that handle_exit had cleared
\* on the way in), and the exported function has returned with that signal
\* pending again.
C19_Witness ==
  /\ pc = "returned"
  /\ mode = "subr"
  /\ phase = "exit"
  /\ hostres.tag = "Err"
  /\ hostres.e.kind = "Signal"
  /\ pending = [st |-> SIGNAL, a |-> hostres.e.a, b |-> hostres.e.b]

----------------------------------------------------------------------------
\* Properties of two loads in one process.

\* The prefix state plugin p writes.
OwnPrefix(p) == <<set_feature(ModuleOpts(p)), ModuleOpts(p).separator>>

\* C20: whatever the interleaving of the two loads, the prefix a load reads
\* for the function it is registering is the one this plugin wrote, and every
\* name it has bound starts with this plugin's own feature and separator.
C20_OwnPrefix ==
  \A p \in Plugins :
    /\ ld[p].rd # <<>> => ld[p].rd = OwnPrefix(p)
    /\ \A name \in ld[p].bound :
         \E n \in FnNames, flag \in BOOLEAN :
           name = FullName(OwnPrefix(p), flag, ModuleOpts(p).path, n)

====
